---- MODULE Spec2Model ----
(***************************************************************************)
(* Model of the IMX500 detection snapshot pipeline (detector.py):          *)
(* configuration resolution, per-cycle decoding of the raw outputs,        *)
(* thresholding, ranking and snapshot assembly.                            *)
(*                                                                         *)
(* Confidences are integers in percent (0.55 is 55).  Box coordinates are  *)
(* integers in units of 1/Q of a pixel (or of the unit interval when the   *)
(* network emits normalized boxes); the floating-point values the decoder  *)
(* works on are kept in units of 1/(2*Q) so that the halving of the        *)
(* centre form is exact.  A label is a pair: <<"name", s>> for a line of   *)
(* the label list, <<"Class", i>> for the formatted text "Class {i}".      *)
(***************************************************************************)
EXTENDS Integers, Sequences, FiniteSets, TLC

VARIABLES
    cli,           \* the options the user gave on the command line
    args,          \* command-line namespace handed to IMX500Detector
    config_error,  \* TRUE once configuration has ended the program
    rt,            \* one box taken through the scaling both ways
    soft,          \* the diagnostics queries that failed in the last cycle
    model,         \* network intrinsics as declared by the model file
    intrinsics,    \* IMX500Detector.intrinsics after _init_intrinsics
    started,       \* TRUE once IMX500Detector.__init__ has returned
    labels_cache,  \* lru_cache(maxsize=1) of get_labels
    np_outputs,    \* raw outputs of the cycle that produced the snapshot
    snapshot,      \* the FrameSnapshot returned by the last capture_snapshot
    raised,        \* TRUE when the last capture_snapshot raised instead
    app,           \* the fields of the App object
    loop,          \* the position of App.run in its loop
    camera,        \* the capture requests and the stop of the camera
    memo           \* history: outputs and result of one earlier cycle

vars == <<cli, args, config_error, rt, soft, model, intrinsics, started, labels_cache,
          np_outputs, snapshot, raised, app, loop, camera, memo>>

kioskVars == <<app, loop, camera>>

----------------------------------------------------------------------------
(* Constants of the program *)

RAW_TOPK == 20

TOP_N == 3

FALLBACK_LABELS == 1000

DEFAULT_THRESHOLD == 55

DEFAULT_MAX_DETECTIONS == 10

(* Bounds of the model *)

MaxCand == 2      \* longest exhaustively enumerated candidate list

MaxHist == 1      \* longest enumerated list of the two-cycle runs

ExtraLen == 1     \* how far the long candidate lists exceed RAW_TOPK

Q == 4            \* fixed-point resolution of a raw coordinate

----------------------------------------------------------------------------
(* Generic helpers *)

Min(a, b) == IF a <= b THEN a ELSE b

Max(a, b) == IF a >= b THEN a ELSE b

Take(s, n) == SubSeq(s, 1, Min(Len(s), n))

None == [present |-> FALSE, value |-> <<>>]

Some(v) == [present |-> TRUE, value |-> v]

\* int(x) of a float given in units of 1/(2*Q): truncation toward zero
PyInt(v) == IF v >= 0 THEN v \div (2 * Q) ELSE -((-v) \div (2 * Q))

----------------------------------------------------------------------------
(* Labels *)

Name(s) == <<"name", s>>

ClassLabel(i) == <<"Class", i>>

\* intr.labels = [f"Class {i}" for i in range(1000)]
DefaultLabels == [i \in 1..FALLBACK_LABELS |-> ClassLabel(i - 1)]

\* get_labels body: drop empty and "-" labels when ignore_dash_labels is set
ComputeLabels(intr) ==
    IF intr.ignore_dash_labels
    THEN SelectSeq(intr.labels, LAMBDA l : l # Name("") /\ l # Name("-"))
    ELSE intr.labels

\* get_labels through its lru_cache: a hit returns the cached list
GetLabels(cache, intr) ==
    IF cache.present THEN cache.value ELSE ComputeLabels(intr)

\* the range test without its lower bound: a negative index counts from
\* the end of the list
ResolveLabelNoLower(labels, cat) ==
    IF cat < Len(labels)
    THEN IF cat >= 0 THEN labels[cat + 1] ELSE labels[Len(labels) + cat + 1]
    ELSE ClassLabel(cat)

\* labels[cat] if 0 <= cat < len(labels) else f"Class {cat}"
ResolveLabel(labels, cat) ==
    IF 0 <= cat /\ cat < Len(labels) THEN labels[cat + 1] ELSE ClassLabel(cat)

----------------------------------------------------------------------------
(* Boxes *)

\* A raw coordinate (units of 1/Q) as the float the decoder works on
ToFloat(v) == 2 * v

\* _apply_bbox_normalization_and_order: scale a normalized box to pixels
ApplyBboxNormalizationAndOrder(intr, box, input_w, input_h) ==
    LET bbox_norm  == IF intr.bbox_normalization.present
                      THEN intr.bbox_normalization.value ELSE FALSE
        bbox_order == intr.bbox_order
        out        == [i \in 1..4 |-> ToFloat(box[i])]
    IN  IF bbox_norm
        THEN IF bbox_order = "yx"
             THEN <<out[1] * input_h, out[2] * input_w,
                    out[3] * input_h, out[4] * input_w>>
             ELSE <<out[1] * input_w, out[2] * input_h,
                    out[3] * input_w, out[4] * input_h>>
        ELSE out

\* _nanodet_xywh_center_to_xyxy: centre form to corner form
NanodetXywhCenterToXyxy(box) ==
    LET x_c == ToFloat(box[1])
        y_c == ToFloat(box[2])
        w   == box[3]
        h   == box[4]
    IN  <<x_c - w, y_c - h, x_c + w, y_c + h>>

\* imx500.convert_inference_coords: the camera's mapper, taken as the
\* identity mapper of the inference space onto the stream
ConvertInferenceCoords(box) == box

\* _map_to_int_xywh
MapToIntXywh(mapped) == [i \in 1..4 |-> PyInt(mapped[i])]

----------------------------------------------------------------------------
(* Ranking *)

Det(label, conf, box) == [label |-> label, conf |-> conf, box |-> box]

\* the sort without reverse=True: ascending
InsertAsc(s, d) ==
    LET k == Cardinality({i \in 1..Len(s) : s[i].conf <= d.conf})
    IN  SubSeq(s, 1, k) \o <<d>> \o SubSeq(s, k + 1, Len(s))

\* the insertion that puts d in front of the elements of its own
\* confidence: equal confidences come out in reverse candidate order
InsertDescBefore(s, d) ==
    LET k == Cardinality({i \in 1..Len(s) : s[i].conf > d.conf})
    IN  SubSeq(s, 1, k) \o <<d>> \o SubSeq(s, k + 1, Len(s))

\* one step of the stable descending sort: d goes behind every element
\* whose confidence is at least its own
InsertDesc(s, d) ==
    LET k == Cardinality({i \in 1..Len(s) : s[i].conf >= d.conf})
    IN  SubSeq(s, 1, k) \o <<d>> \o SubSeq(s, k + 1, Len(s))

\* the sorted copy thrown away: the list stays in candidate order
Unsorted(s) == s

RECURSIVE SortedDesc(_)
\* sorted(dets, key=lambda d: d.conf, reverse=True)
SortedDesc(s) ==
    IF s = <<>> THEN <<>>
    ELSE InsertDesc(SortedDesc(SubSeq(s, 1, Len(s) - 1)), s[Len(s)])

\* the raw list taken from the candidates that pass the threshold
RawTopkKept(raw_sorted) ==
    Take(SelectSeq(raw_sorted, LAMBDA d : d.conf >= args.threshold), RAW_TOPK)

\* the raw list cut at the larger of max_detections and RAW_TOPK
RawTopkMaxDet(raw_sorted) ==
    Take(raw_sorted, Max(args.max_detections, RAW_TOPK))

\* raw_sorted[:RAW_TOPK]
RawTopk(raw_sorted) == Take(raw_sorted, RAW_TOPK)

\* the summary sliced from the wrong end: kept_sorted[-3:]
Top3Tail(kept_sorted) ==
    LET n == Min(Len(kept_sorted), TOP_N)
        o == Len(kept_sorted) - n
    IN  [i \in 1..n |-> <<kept_sorted[o + i].label, kept_sorted[o + i].conf>>]

\* [(d.label, d.conf) for d in kept_sorted[:3]]
Top3(kept_sorted) ==
    [i \in 1..Min(Len(kept_sorted), TOP_N) |->
        <<kept_sorted[i].label, kept_sorted[i].conf>>]

----------------------------------------------------------------------------
(* Decoding *)

\* postprocess_nanodet_detection(conf, iou_thres, max_out_dets): the
\* library's suppression pass drops the candidates under conf and hands
\* back at most max_out_dets of the others
PostprocessNanodet(outputs, conf, max_out_dets) ==
    Take(SelectSeq(outputs, LAMBDA c : c.score >= conf), max_out_dets)

\* the suppression called with the threshold as its confidence
NanodetCandsAtThreshold(outputs) ==
    PostprocessNanodet(outputs, args.threshold,
                       Max(args.max_detections, RAW_TOPK))

\* the call of the nanodet branch: confidence 0 and the larger of
\* max_detections and RAW_TOPK as the cap
NanodetCands(outputs) ==
    PostprocessNanodet(outputs, 0, Max(args.max_detections, RAW_TOPK))

\* the loop body of the nanodet branch for one candidate
NanodetDet(labels, c) ==
    Det(ResolveLabel(labels, c.category), c.score,
        MapToIntXywh(ConvertInferenceCoords(NanodetXywhCenterToXyxy(c.box))))

\* the loop body of the generic branch for one candidate
GenericDet(labels, c, input_w, input_h) ==
    Det(ResolveLabel(labels, c.category), c.score,
        MapToIntXywh(ConvertInferenceCoords(
            ApplyBboxNormalizationAndOrder(intrinsics, c.box,
                                           input_w, input_h))))

\* raw_dets as built by the branch of the configured variant
RawDets(outputs, labels, input_w, input_h) ==
    IF intrinsics.postprocess = "nanodet"
    THEN LET cands == NanodetCands(outputs)
         IN  [i \in 1..Len(cands) |-> NanodetDet(labels, cands[i])]
    ELSE [i \in 1..Len(outputs) |->
             GenericDet(labels, outputs[i], input_w, input_h)]

\* kept_dets kept on the detector and never cleared between cycles
KeptDetsAccum(raw_dets) ==
    snapshot.dets \o SelectSeq(raw_dets, LAMBDA d : d.conf >= args.threshold)

\* kept_dets: the candidates appended under "if conf >= threshold"
KeptDets(raw_dets) ==
    SelectSeq(raw_dets, LAMBDA d : d.conf >= args.threshold)

\* parse_detections past the test for absent outputs
DecodeOutputs(outs, cache, debug0) ==
    LET input_w     == model.input_size[1]
        input_h     == model.input_size[2]
        labels      == GetLabels(cache, intrinsics)
        raw_dets    == RawDets(outs, labels, input_w, input_h)
        kept_dets   == KeptDets(raw_dets)
        raw_sorted  == SortedDesc(raw_dets)
        kept_sorted == SortedDesc(kept_dets)
    IN  [dets |-> kept_sorted,
         raw_dets |-> RawTopk(raw_sorted),
         top3 |-> Top3(kept_sorted),
         debug |-> [raw_candidates |-> Len(raw_dets),
                    kept |-> Len(kept_sorted)] @@ debug0,
         cache |-> Some(labels), raised |-> FALSE]

\* the debug entries written before the outputs are looked at
Debug0 ==
    [threshold |-> args.threshold,
     max_detections |-> args.max_detections,
     raw_topk |-> RAW_TOPK]

\* the output-shape query of parse_detections: None when the query
\* raises or yields nothing
OutputShapes(metadata) ==
    IF metadata.output_shapes.present /\ metadata.output_shapes.value # <<>>
    THEN metadata.output_shapes
    ELSE None

\* _safe_get_roi_and_scalercrop with a zero region in place of None
SafeGetRoiAndScalercropZero(metadata) ==
    [roi |-> IF metadata.roi.present THEN metadata.roi
             ELSE Some(<<0, 0, 0, 0>>),
     sc  |-> IF metadata.ScalerCrop.present
                /\ Len(metadata.ScalerCrop.value) = 4
             THEN metadata.ScalerCrop ELSE None]

\* _safe_get_roi_and_scalercrop: a raising region query and an absent or
\* malformed scaler crop both give None
SafeGetRoiAndScalercrop(metadata) ==
    [roi |-> IF metadata.roi.present THEN metadata.roi ELSE None,
     sc  |-> IF metadata.ScalerCrop.present
                /\ Len(metadata.ScalerCrop.value) = 4
             THEN metadata.ScalerCrop ELSE None]

\* the debug entries of the diagnostics queries
Debug1(metadata) ==
    LET r == SafeGetRoiAndScalercrop(metadata)
    IN  [output_shapes |-> OutputShapes(metadata),
         roi |-> r.roi, scaler_crop |-> r.sc] @@ Debug0

\* parse_detections without the test for absent outputs: indexing None
\* raises
ParseDetectionsNoTest(metadata, cache) ==
    IF ~metadata.outputs.present
    THEN [dets |-> <<>>, raw_dets |-> <<>>, top3 |-> <<>>,
          debug |-> Debug1(metadata),
          cache |-> Some(GetLabels(cache, intrinsics)),
          raised |-> TRUE]
    ELSE DecodeOutputs(metadata.outputs.value, cache, Debug1(metadata))

\* parse_detections
ParseDetections(metadata, cache) ==
    IF ~metadata.outputs.present
    THEN [dets |-> <<>>, raw_dets |-> <<>>, top3 |-> <<>>,
          debug |-> [raw_candidates |-> 0, kept |-> 0] @@ Debug1(metadata),
          cache |-> cache, raised |-> FALSE]
    ELSE DecodeOutputs(metadata.outputs.value, cache, Debug1(metadata))

----------------------------------------------------------------------------
(* Configuration *)

\* NetworkIntrinsics.update_with_defaults: unset fields take the defaults
UpdateWithDefaults(intr) ==
    [intr EXCEPT !.postprocess =
                     IF intr.postprocess.present THEN intr.postprocess
                     ELSE Some(""),
                 !.bbox_order =
                     IF intr.bbox_order.present THEN intr.bbox_order
                     ELSE Some("yx")]

\* _init_intrinsics: runtime overrides on top of the model's intrinsics
InitIntrinsics(a, m) ==
    LET l1 == IF a.labels.present THEN a.labels ELSE m.labels
        r  == UpdateWithDefaults(
                [labels             |-> IF l1.present THEN l1
                                        ELSE Some(DefaultLabels),
                 ignore_dash_labels |-> m.ignore_dash_labels,
                 bbox_normalization |-> IF a.bbox_normalization.present
                                        THEN a.bbox_normalization
                                        ELSE m.bbox_normalization,
                 bbox_order         |-> IF a.bbox_order.present
                                        THEN a.bbox_order ELSE m.bbox_order,
                 preserve_aspect_ratio |->
                                        IF a.preserve_aspect_ratio.present
                                        THEN a.preserve_aspect_ratio
                                        ELSE m.preserve_aspect_ratio,
                 postprocess        |-> IF a.postprocess.present
                                        THEN a.postprocess
                                        ELSE m.postprocess])
    IN  [labels             |-> r.labels.value,
         ignore_dash_labels |-> r.ignore_dash_labels,
         bbox_normalization |-> r.bbox_normalization,
         bbox_order         |-> r.bbox_order.value,
         preserve_aspect_ratio |-> r.preserve_aspect_ratio,
         postprocess        |-> r.postprocess.value]

\* the intrinsics field before the detector is constructed
NoIntrinsics ==
    [labels |-> <<>>, ignore_dash_labels |-> FALSE,
     bbox_normalization |-> None, bbox_order |-> "yx",
     preserve_aspect_ratio |-> None, postprocess |-> ""]

\* get_args: argparse turns the given options into the namespace; an
\* option value outside its choices ends the program
GetArgs(c) ==
    [valid              |-> /\ c.bbox_order.present =>
                                   c.bbox_order.value \in {"yx", "xy"}
                            /\ c.postprocess.present =>
                                   c.postprocess.value \in {"", "nanodet"},
     threshold          |-> IF c.threshold.present THEN c.threshold.value
                            ELSE DEFAULT_THRESHOLD,
     max_detections     |-> IF c.max_detections.present
                            THEN c.max_detections.value
                            ELSE DEFAULT_MAX_DETECTIONS,
     labels             |-> c.labels,
     bbox_normalization |-> c.bbox_normalization,
     bbox_order         |-> IF c.bbox_order.present THEN c.bbox_order
                            ELSE Some("yx"),
     preserve_aspect_ratio |-> c.preserve_aspect_ratio,
     postprocess        |-> c.postprocess]

----------------------------------------------------------------------------
(* Inputs *)

Cand(box, score, category) ==
    [box |-> box, score |-> score, category |-> category]

BoxA == <<1, 1, 3, 4>>

BoxB == <<2, 0, 4, 3>>

c90 == Cand(BoxA, 90, 0)

c70 == Cand(BoxB, 70, 1)

c40 == Cand(BoxA, 40, 999)

c90b == Cand(BoxB, 90, -1)

c20 == Cand(BoxB, 20, 2)

c95 == Cand(BoxA, 95, 0)

c94 == Cand(BoxB, 94, 2)

Pool == {c90, c70, c40, c90b}

\* every candidate list of at most MaxCand candidates of the pool
ShortLists ==
    UNION {[1..n -> Pool] : n \in 0..MaxCand}

\* a list of n candidates repeating the pattern pat
Repeat(pat, n) == [i \in 1..n |-> pat[((i - 1) % Len(pat)) + 1]]

Mixed == <<c40, c90, c70, c90b>>

\* lists that reach and exceed RAW_TOPK candidates, the best one last
LongLists ==
    {Repeat(pat, n) \o <<c95>> :
        pat \in {<<c70, c90>>, Mixed},
        n \in (RAW_TOPK - 1)..(RAW_TOPK - 1 + ExtraLen)}

ScenarioA == <<c90, c70, c40, c20>>

ScenarioB == <<c95, c94>>

CandLists == ShortLists \cup LongLists \cup {ScenarioA, ScenarioB}

\* capture metadata whose diagnostics queries all succeed
Sound(outs) ==
    [outputs |-> outs, roi |-> Some(<<0, 0, 320, 240>>),
     output_shapes |-> Some(<<<<1, 4>>>>),
     ScalerCrop |-> Some(<<0, 0, 1280, 720>>)]

\* capture metadata: the raw outputs are absent or hold a candidate list
MetadataSet ==
    {Sound(None)} \cup {Sound(Some(l)) : l \in CandLists}

\* the candidate lists of the runs that compare two cycles
HistLists ==
    UNION {[1..n -> {c90, c70, c40}] : n \in 0..MaxHist}
        \cup {ScenarioA, Repeat(Mixed, RAW_TOPK - 1 + ExtraLen) \o <<c95>>}

HistMetadataSet ==
    {Sound(None)} \cup {Sound(Some(l)) : l \in HistLists}

\* capture metadata with failing diagnostics: the region query raises
\* (roi None), the shape query raises (output_shapes None), the scaler
\* crop is absent (None) or is not a 4-list
SoftMetadataSet ==
    [outputs       : {None, Some(ScenarioA)},
     roi           : {None, Some(<<0, 0, 320, 240>>)},
     output_shapes : {None, Some(<<<<1, 4>>>>)},
     ScalerCrop    : {None, Some(<<0, 0>>), Some(<<0, 0, 1280, 720>>)}]

\* the diagnostics that fail on a capture
SoftFailures(metadata) ==
    {k \in {"roi", "output_shapes", "scaler_crop"} :
        \/ k = "roi" /\ ~metadata.roi.present
        \/ k = "output_shapes" /\ ~metadata.output_shapes.present
        \/ k = "scaler_crop" /\ ~metadata.ScalerCrop.present}

FileLabels == <<Name("person"), Name("-"), Name("cat")>>

\* the command lines of the decoding runs
CliSet ==
    [threshold          : {Some(50), Some(90)},
     max_detections     : {Some(1), Some(RAW_TOPK + 1)},
     labels             : {None},
     bbox_normalization : {None},
     bbox_order         : {None},
     preserve_aspect_ratio : {None},
     postprocess        : {None, Some("nanodet")}]

ArgsSet == {GetArgs(c) : c \in CliSet}

ModelSet ==
    [task               : {"object detection"},
     labels             : {Some(FileLabels)},
     ignore_dash_labels : BOOLEAN,
     bbox_normalization : {Some(FALSE), Some(TRUE)},
     bbox_order         : {None},
     preserve_aspect_ratio : {None},
     postprocess        : {None},
     input_size         : {<<320, 240>>}]

OtherLabels == <<Name("dog"), Name("bird")>>

\* the command lines of the configuration runs
CfgCliSet ==
    [threshold          : {None},
     max_detections     : {None},
     labels             : {None, Some(OtherLabels)},
     bbox_normalization : {None, Some(FALSE)},
     bbox_order         : {None, Some("yx"), Some("xy")},
     preserve_aspect_ratio : {None, Some(TRUE)},
     postprocess        : {None, Some(""), Some("bogus")}]

\* the model files of the configuration runs
CfgModelSet ==
    [task               : {"object detection", "classification"},
     labels             : {None, Some(FileLabels)},
     ignore_dash_labels : {FALSE},
     bbox_normalization : {Some(TRUE)},
     bbox_order         : {None, Some("xy")},
     preserve_aspect_ratio : {Some(FALSE)},
     postprocess        : {None, Some("nanodet"), Some("other")},
     input_size         : {<<320, 240>>}]

CfgMetadataSet == {Sound(None), Sound(Some(ScenarioA))}

----------------------------------------------------------------------------
(* State machine *)

NoSnapshot ==
    [frame_rgb |-> None, dets |-> <<>>, raw_dets |-> <<>>, top3 |-> <<>>,
     top_dets |-> <<>>, debug |-> <<>>]

NoMemo == [present |-> FALSE, old |-> FALSE, outputs |-> None,
           dets |-> <<>>, raw_dets |-> <<>>, top3 |-> <<>>, soft |-> {}]

----------------------------------------------------------------------------
(* Kiosk: the App object and its handlers *)

MaxEvents == 2

MaxRequests == 2

\* the audio files present in the audio directory, by language and step
AudioFiles == {<<"DE", 1>>, <<"DE", 2>>, <<"EN", 1>>}

QuitKeys == {"K_q", "K_ESCAPE"}

Keys == QuitKeys \cup {"K_RETURN", "K_BACKSPACE", "K_SPACE"}

\* the hit boxes of the buttons; a click is named after the box it is in
Rects ==
    {"cta", "home", "lang", "level_left", "level_right", "gate_prev",
     "gate_next", "nav_prev", "nav_next", "nav_action", "nav_audio"}

NavRects == {"nav_prev", "nav_next", "nav_action", "nav_audio"}

Events == {"QUIT"} \cup Keys \cup Rects

\* App.__init__: every hit box starts as the empty rectangle
AppInit ==
    [running |-> TRUE, state |-> "LIVEINTRO", mode |-> "LIVE", step |-> 0,
     lang |-> "DE", level |-> "NONE", gate_next_step |-> None,
     has_snapshot |-> FALSE, audio_is_paused |-> FALSE,
     music_busy |-> FALSE, rects |-> {}]

\* total_steps_for_level with the STUDENT total for every level
TotalStepsForLevelStudent(level) == 7

\* steps.total_steps_for_level
TotalStepsForLevel(level) ==
    IF level = "SCHUELER" THEN 4 ELSE IF level = "STUDENT" THEN 7 ELSE 7

TotalSteps(a) ==
    TotalStepsForLevel(IF a.level = "NONE" THEN "SCHUELER" ELSE a.level)

IsStudent(a) == a.level = "STUDENT"

StopAudio(a) == [a EXCEPT !.music_busy = FALSE, !.audio_is_paused = FALSE]

InvalidateCaches(a) == StopAudio(a)

GoHome(a) ==
    InvalidateCaches([a EXCEPT !.state = "LIVEINTRO", !.mode = "LIVE",
                               !.step = 0, !.level = "NONE",
                               !.gate_next_step = None])

ToggleLang(a) ==
    InvalidateCaches([a EXCEPT !.lang = IF a.lang = "DE" THEN "EN"
                                        ELSE "DE"])

\* _get_audio_filename without the test of the level
GetAudioFilenameAnyLevel(a) ==
    IF <<a.lang, a.step>> \in AudioFiles THEN Some(<<a.lang, a.step>>)
    ELSE None

\* _get_audio_filename: audio only for SCHUELER and only when the file
\* of the language and step exists
GetAudioFilename(a) ==
    IF a.level # "SCHUELER" THEN None
    ELSE IF <<a.lang, a.step>> \in AudioFiles THEN Some(<<a.lang, a.step>>)
    ELSE None

ToggleAudio(a) ==
    IF a.audio_is_paused
    THEN [a EXCEPT !.music_busy = TRUE, !.audio_is_paused = FALSE]
    ELSE IF a.music_busy
    THEN [a EXCEPT !.music_busy = FALSE, !.audio_is_paused = TRUE]
    ELSE IF GetAudioFilename(a).present
    THEN [a EXCEPT !.music_busy = TRUE, !.audio_is_paused = FALSE]
    ELSE a

\* _start_detection without the assignment of the level
StartDetectionNoLevel(a, level) ==
    [InvalidateCaches([a EXCEPT !.has_snapshot = TRUE,
                                !.mode = "LIVE", !.step = 0,
                                !.gate_next_step = None])
        EXCEPT !.state = "RUNNING"]

\* _start_detection once the camera is ensured
StartDetection(a, level) ==
    [InvalidateCaches([a EXCEPT !.level = level, !.has_snapshot = TRUE,
                                !.mode = "LIVE", !.step = 0,
                                !.gate_next_step = None])
        EXCEPT !.state = "RUNNING"]

\* _enter_gate_for_step without the change of state
EnterGateForStepNoState(a, target_step) ==
    InvalidateCaches([a EXCEPT !.gate_next_step = Some(target_step)])

EnterGateForStep(a, target_step) ==
    InvalidateCaches([a EXCEPT !.gate_next_step = Some(target_step),
                               !.state = "GATE"])

AcceptGate(a) ==
    IF ~a.gate_next_step.present THEN [a EXCEPT !.state = "RUNNING"]
    ELSE InvalidateCaches([a EXCEPT !.mode = "ANALYSE",
                                    !.step = a.gate_next_step.value,
                                    !.gate_next_step = None,
                                    !.state = "RUNNING"])

\* _gate_back leaving every gate for LIVE
GateBackToLive(a) ==
    InvalidateCaches([a EXCEPT !.mode = "LIVE", !.step = 0,
                               !.state = "RUNNING",
                               !.gate_next_step = None])

GateBack(a) ==
    IF a.gate_next_step.present /\ a.gate_next_step.value = 1
    THEN InvalidateCaches([a EXCEPT !.mode = "LIVE", !.step = 0,
                                    !.state = "RUNNING",
                                    !.gate_next_step = None])
    ELSE LET target == (IF a.gate_next_step.present
                        THEN a.gate_next_step.value ELSE 2) - 1
         IN  InvalidateCaches([a EXCEPT !.mode = "ANALYSE", !.step = target,
                                        !.state = "RUNNING",
                                        !.gate_next_step = None])

\* what a handler hands back: the App fields, whether handle_events
\* returned early, and the level for which a camera is to be ensured
Handled(a, returned) == [app |-> a, returned |-> returned, start |-> "NONE"]

\* the analysis leaves LIVE: through the gate of step 1 for STUDENT
StartAnalysis(a) ==
    IF IsStudent(a) THEN EnterGateForStep(a, 1)
    ELSE InvalidateCaches([a EXCEPT !.mode = "ANALYSE", !.step = 1])

EndAnalysis(a) == InvalidateCaches([a EXCEPT !.mode = "LIVE", !.step = 0])

\* the next step taken at once, for STUDENT too
NextStepNoGate(a) ==
    LET nxt == Min(TotalSteps(a), a.step + 1)
    IN  IF nxt = a.step THEN a
        ELSE InvalidateCaches([a EXCEPT !.step = nxt])

NextStep(a) ==
    LET nxt == Min(TotalSteps(a), a.step + 1)
    IN  IF nxt = a.step THEN a
        ELSE IF IsStudent(a) THEN EnterGateForStep(a, nxt)
        ELSE InvalidateCaches([a EXCEPT !.step = nxt])

PrevStep(a) ==
    IF IsStudent(a) THEN EnterGateForStep(a, a.step)
    ELSE LET prv == Max(1, a.step - 1)
         IN  IF prv = a.step THEN a
             ELSE InvalidateCaches([a EXCEPT !.step = prv])

\* handle_events, the KEYDOWN branch
KeyDown(a0, key) ==
    LET a == IF key \in QuitKeys THEN [a0 EXCEPT !.running = FALSE] ELSE a0
    IN  IF a.state = "GATE" /\ key = "K_RETURN"
        THEN Handled(AcceptGate(a), TRUE)
        ELSE IF a.state = "GATE" /\ key = "K_BACKSPACE"
        THEN Handled(GateBack(a), TRUE)
        ELSE IF a.state # "RUNNING" THEN Handled(a, FALSE)
        ELSE IF key = "K_SPACE"
        THEN Handled(IF a.mode = "LIVE" THEN StartAnalysis(a)
                     ELSE EndAnalysis(a), FALSE)
        ELSE IF a.mode # "ANALYSE" THEN Handled(a, FALSE)
        ELSE IF key = "K_RETURN" THEN Handled(NextStep(a), FALSE)
        ELSE IF key = "K_BACKSPACE" THEN Handled(PrevStep(a), FALSE)
        ELSE Handled(a, FALSE)

\* handle_events, the MOUSEBUTTONDOWN branch for the left button: the
\* click is in the box named pos, and hits it when the box is laid out
MouseButtonDown(a, pos) ==
    LET Hit(r) == pos = r /\ r \in a.rects
    IN  IF a.state = "LIVEINTRO"
        THEN IF Hit("cta") THEN Handled([a EXCEPT !.state = "LANDING"], TRUE)
             ELSE Handled(a, FALSE)
        ELSE IF Hit("home") THEN Handled(GoHome(a), TRUE)
        ELSE IF Hit("lang") THEN Handled(ToggleLang(a), TRUE)
        ELSE IF a.state = "LANDING"
        THEN IF Hit("level_left")
             THEN [Handled(a, TRUE) EXCEPT !.start = "SCHUELER"]
             ELSE IF Hit("level_right")
             THEN [Handled(a, TRUE) EXCEPT !.start = "STUDENT"]
             ELSE Handled(a, FALSE)
        ELSE IF a.state = "GATE"
        THEN IF Hit("gate_next") THEN Handled(AcceptGate(a), TRUE)
             ELSE IF Hit("gate_prev") THEN Handled(GateBack(a), TRUE)
             ELSE Handled(a, FALSE)
        ELSE IF Hit("nav_audio") THEN Handled(ToggleAudio(a), TRUE)
        ELSE IF a.mode = "LIVE"
        THEN Handled(IF Hit("nav_action") THEN StartAnalysis(a) ELSE a, FALSE)
        ELSE IF a.mode # "ANALYSE" THEN Handled(a, FALSE)
        ELSE IF Hit("nav_next")
        THEN Handled(IF a.step = TotalSteps(a) THEN EndAnalysis(a)
                     ELSE NextStep(a), FALSE)
        ELSE IF Hit("nav_prev") THEN Handled(PrevStep(a), FALSE)
        ELSE Handled(a, FALSE)

\* the body of the loop of handle_events for one event
Dispatch(a, event) ==
    IF event = "QUIT" THEN Handled([a EXCEPT !.running = FALSE], FALSE)
    ELSE IF event \in Keys THEN KeyDown(a, event)
    ELSE MouseButtonDown(a, event)

\* App.update capturing in every state
UpdateCapturesAlways(a) == TRUE

\* App.update capturing in every mode of RUNNING
UpdateCapturesRunning(a) == a.state \in {"LIVEINTRO", "RUNNING"}

\* App.update captures in LIVEINTRO and in the LIVE mode of RUNNING
UpdateCaptures(a) ==
    a.state = "LIVEINTRO" \/ (a.state = "RUNNING" /\ a.mode = "LIVE")

\* the hit boxes after App.draw
DrawRects(a) ==
    IF a.state = "LIVEINTRO" THEN a.rects \cup {"cta"}
    ELSE IF a.state = "LANDING"
    THEN a.rects \cup {"level_left", "level_right", "home", "lang"}
    ELSE IF a.state = "GATE"
    THEN a.rects \cup {"gate_prev", "gate_next", "home", "lang"}
    ELSE (a.rects \ NavRects) \cup {"home", "lang"}
         \cup (IF a.mode = "LIVE" THEN {"nav_action"}
               ELSE {"nav_prev", "nav_next"}
                    \cup (IF GetAudioFilename(a).present
                          THEN {"nav_audio"} ELSE {}))

\* the assertions on the way of App.draw hold
DrawAsserts(a) ==
    /\ a.state \in {"RUNNING", "GATE"} => a.has_snapshot
    /\ (a.state = "GATE" \/ (a.state = "RUNNING" /\ a.mode # "LIVE"))
           => a.level # "NONE"

LoopInit ==
    [pc |-> "loop", batch_left |-> 0, returned |-> FALSE, event |-> "NONE",
     handled |-> FALSE, calls |-> 0, failed |-> FALSE]

CameraInit == [requests |-> 0, stopped |-> FALSE]

\* the state before the detector is constructed
Fresh ==
    /\ app = AppInit
    /\ loop = LoopInit
    /\ camera = CameraInit
    /\ args = GetArgs(cli)
    /\ config_error = ~args.valid
    /\ intrinsics = NoIntrinsics
    /\ started = FALSE
    /\ labels_cache = None
    /\ np_outputs = None
    /\ snapshot = NoSnapshot
    /\ raised = FALSE
    /\ memo = NoMemo

NoRoundTrip ==
    [done |-> FALSE, box |-> <<>>, input_size |-> <<>>,
     from_norm |-> <<>>, from_denorm |-> <<>>]

Init ==
    /\ cli \in CliSet
    /\ model \in ModelSet
    /\ Fresh
    /\ rt = NoRoundTrip
    /\ soft = {}

\* the construction of the detector cannot succeed
CameraFails == ~started /\ model.task # "object detection"

\* _ensure_camera: the detector is constructed when there is none; a
\* network of another task ends the program
EnsureCamera ==
    IF started THEN UNCHANGED <<intrinsics, started, config_error>>
    ELSE IF model.task # "object detection"
    THEN /\ config_error' = TRUE
         /\ UNCHANGED <<intrinsics, started>>
    ELSE /\ intrinsics' = InitIntrinsics(args, model)
         /\ started' = TRUE
         /\ UNCHANGED config_error

\* IMX500Detector.__init__
DetectorInit ==
    /\ ~started
    /\ ~config_error
    /\ EnsureCamera
    /\ UNCHANGED <<cli, args, rt, soft, model, labels_cache, np_outputs,
                   snapshot, raised, memo>>
    /\ UNCHANGED kioskVars

\* capture_snapshot: one decode cycle on the metadata of the captured
\* request; an exception of parse_detections leaves no new snapshot
Cycle(metadata) ==
    /\ started
    /\ LET r == ParseDetections(metadata, labels_cache)
       IN  /\ raised' = r.raised
           /\ snapshot' = IF r.raised THEN snapshot
                          ELSE [frame_rgb |-> Some("frame"),
                                dets      |-> r.dets,
                                raw_dets  |-> r.raw_dets,
                                top3      |-> r.top3,
                                top_dets  |-> Take(r.dets, TOP_N),
                                debug     |-> r.debug]
           /\ labels_cache' = r.cache
           /\ np_outputs' = metadata.outputs
           /\ soft' = SoftFailures(metadata)
    /\ UNCHANGED <<cli, args, config_error, rt, model, intrinsics, started>>

CaptureSnapshot(metadata) ==
    /\ Cycle(metadata)
    /\ UNCHANGED memo
    /\ UNCHANGED kioskVars

Next ==
    \/ DetectorInit
    \/ \E metadata \in MetadataSet : CaptureSnapshot(metadata)

Spec == Init /\ [][Next]_vars

\* capture_snapshot with the history variable: memo keeps the outputs and
\* the result of this cycle or of an earlier one
CaptureRemember(metadata) ==
    /\ Cycle(metadata)
    /\ memo' \in {[memo EXCEPT !.old = memo.present],
                  [present |-> TRUE, old |-> FALSE, outputs |-> np_outputs',
                   dets |-> snapshot'.dets, raw_dets |-> snapshot'.raw_dets,
                   top3 |-> snapshot'.top3, soft |-> soft']}
    /\ UNCHANGED kioskVars

NextHist ==
    \/ DetectorInit
    \/ \E metadata \in HistMetadataSet : CaptureRemember(metadata)

SpecHist == Init /\ [][NextHist]_vars

InitSoft ==
    /\ cli \in {c \in CliSet : c.threshold = Some(50)
                                /\ c.max_detections = Some(1)}
    /\ model \in {m \in ModelSet : ~m.ignore_dash_labels
                                   /\ m.bbox_normalization = Some(TRUE)}
    /\ Fresh
    /\ rt = NoRoundTrip
    /\ soft = {}

NextSoft ==
    \/ DetectorInit
    \/ \E metadata \in SoftMetadataSet : CaptureRemember(metadata)

SpecSoft == InitSoft /\ [][NextSoft]_vars

----------------------------------------------------------------------------
(* Kiosk: App.run *)

AppMetadataSet == {Sound(None), Sound(Some(ScenarioA))}

\* request.release without the release
ReleaseOmitted(c) == c

\* request.release in the finally clause of capture_snapshot
Release(c) == [c EXCEPT !.requests = c.requests - 1]

\* the finally clause of App.run: the detector is stopped if there is one
Quit(l, failed, has_detector) ==
    /\ loop' = [l EXCEPT !.pc = "exited", !.failed = failed]
    /\ camera' = [camera EXCEPT !.stopped = has_detector]

InitApp ==
    /\ cli \in {c \in CliSet : c.threshold = Some(50)
                                /\ c.max_detections = Some(1)
                                /\ c.postprocess = None}
    /\ model \in {m \in ModelSet : ~m.ignore_dash_labels
                                   /\ m.bbox_normalization = Some(TRUE)}
    /\ Fresh
    /\ rt = NoRoundTrip
    /\ soft = {}

\* pygame.event.get() at the head of handle_events: the events of this
\* iteration are taken off the queue
PollEvents ==
    /\ loop.pc = "loop"
    /\ app.running
    /\ ~config_error
    /\ \E n \in 0..MaxEvents :
           loop' = [loop EXCEPT !.pc = "events", !.batch_left = n,
                                !.returned = FALSE, !.event = "NONE",
                                !.handled = FALSE, !.calls = 0]
    /\ UNCHANGED <<cli, args, config_error, rt, soft, model, intrinsics,
                   started, labels_cache, np_outputs, snapshot, raised,
                   app, camera, memo>>

\* App.run leaves its loop
Exit ==
    /\ loop.pc = "loop"
    /\ ~app.running
    /\ Quit(loop, FALSE, started)
    /\ UNCHANGED <<cli, args, config_error, rt, soft, model, intrinsics,
                   started, labels_cache, np_outputs, snapshot, raised,
                   app, memo>>

\* one pass of the loop of handle_events
HandleEvent(event) ==
    /\ loop.pc = "events"
    /\ loop.batch_left > 0
    /\ ~loop.returned
    /\ LET r == Dispatch(app, event)
           l == [loop EXCEPT !.batch_left = loop.batch_left - 1,
                             !.returned = r.returned,
                             !.event = event, !.handled = TRUE]
       IN  IF r.start = "NONE"
           THEN /\ app' = r.app
                /\ loop' = l
                /\ UNCHANGED <<intrinsics, started, config_error, camera>>
           ELSE /\ EnsureCamera
                /\ IF CameraFails
                   THEN /\ app' = [app EXCEPT !.level = r.start]
                        /\ Quit(l, TRUE, FALSE)
                   ELSE /\ app' = StartDetection(app, r.start)
                        /\ loop' = l
                        /\ UNCHANGED camera
    /\ UNCHANGED <<cli, args, rt, soft, model, labels_cache, np_outputs,
                   snapshot, raised, memo>>

\* an event behind the one on which handle_events returned: it was taken
\* off the queue and is never looked at
DiscardEvent(event) ==
    /\ loop.pc = "events"
    /\ loop.batch_left > 0
    /\ loop.returned
    /\ loop' = [loop EXCEPT !.batch_left = loop.batch_left - 1,
                            !.event = event, !.handled = FALSE]
    /\ UNCHANGED <<cli, args, config_error, rt, soft, model, intrinsics,
                   started, labels_cache, np_outputs, snapshot, raised,
                   app, camera, memo>>

\* App.update up to the capture request of capture_snapshot; without a
\* capture the iteration goes on to draw
Update ==
    /\ loop.pc = "events"
    /\ loop.batch_left = 0
    /\ LET l == [loop EXCEPT !.returned = FALSE, !.event = "NONE",
                             !.handled = FALSE]
       IN  IF ~UpdateCaptures(app)
           THEN /\ loop' = [l EXCEPT !.pc = "draw"]
                /\ UNCHANGED <<intrinsics, started, config_error, app,
                               camera>>
           ELSE IF app.state = "LIVEINTRO"
           THEN /\ EnsureCamera
                /\ IF CameraFails
                   THEN /\ Quit(l, TRUE, FALSE)
                        /\ UNCHANGED app
                   ELSE /\ camera.requests < MaxRequests
                        /\ app' = [app EXCEPT !.has_snapshot = TRUE]
                        /\ camera' = [camera EXCEPT
                                         !.requests = camera.requests + 1]
                        /\ loop' = [l EXCEPT !.pc = "capture"]
           ELSE /\ UNCHANGED <<intrinsics, started, config_error, app>>
                /\ IF ~started
                   THEN Quit(l, TRUE, FALSE)
                   ELSE /\ camera.requests < MaxRequests
                        /\ camera' = [camera EXCEPT
                                         !.requests = camera.requests + 1]
                        /\ loop' = [l EXCEPT !.pc = "capture"]
    /\ UNCHANGED <<cli, args, rt, soft, model, labels_cache, np_outputs,
                   snapshot, raised, memo>>

\* the rest of capture_snapshot: the decode cycle, the release of the
\* request, and the assignment to self.snapshot
FinishCapture(metadata) ==
    /\ loop.pc = "capture"
    /\ Cycle(metadata)
    /\ IF ParseDetections(metadata, labels_cache).raised
       THEN /\ loop' = [loop EXCEPT !.pc = "exited", !.failed = TRUE]
            /\ camera' = [Release(camera) EXCEPT !.stopped = TRUE]
            /\ UNCHANGED app
       ELSE /\ loop' = [loop EXCEPT !.pc = "draw",
                                    !.calls = loop.calls + 1]
            /\ camera' = Release(camera)
            /\ app' = [app EXCEPT !.has_snapshot = TRUE]
    /\ UNCHANGED memo

\* App.draw: the screen of the state is rendered and lays out its hit
\* boxes; a failing assertion ends the program
Draw ==
    /\ loop.pc = "draw"
    /\ IF DrawAsserts(app)
       THEN /\ app' = [app EXCEPT !.rects = DrawRects(app)]
            /\ loop' = [loop EXCEPT !.pc = "loop"]
            /\ UNCHANGED camera
       ELSE /\ Quit(loop, TRUE, started)
            /\ UNCHANGED app
    /\ UNCHANGED <<cli, args, config_error, rt, soft, model, intrinsics,
                   started, labels_cache, np_outputs, snapshot, raised,
                   memo>>

\* the mixer reaches the end of the audio file
MusicEnds ==
    /\ loop.pc # "exited"
    /\ app.music_busy
    /\ app' = [app EXCEPT !.music_busy = FALSE]
    /\ UNCHANGED <<cli, args, config_error, rt, soft, model, intrinsics,
                   started, labels_cache, np_outputs, snapshot, raised,
                   loop, camera, memo>>

NextApp ==
    \/ PollEvents
    \/ \E event \in Events : HandleEvent(event)
    \/ \E event \in Events : DiscardEvent(event)
    \/ Update
    \/ \E metadata \in AppMetadataSet : FinishCapture(metadata)
    \/ Draw
    \/ MusicEnds
    \/ Exit

SpecApp == InitApp /\ [][NextApp]_vars

\* the places of capture_snapshot at which an exception can arise
CaptureStages == {"get_metadata", "make_array", "parse_detections"}

\* capture_snapshot leaving its try block without the release
ReleaseOnRaiseSkipped(c) == c

\* the finally clause of capture_snapshot on the way of an exception
ReleaseOnRaise(c) == Release(c)

\* capture_snapshot raising at one of its stages: the request is released
\* in the finally clause, no snapshot is assigned, and the exception ends
\* App.run through its own finally clause
CaptureRaises(stage) ==
    /\ loop.pc = "capture"
    /\ started
    /\ raised' = TRUE
    /\ loop' = [loop EXCEPT !.pc = "exited", !.failed = TRUE]
    /\ camera' = [ReleaseOnRaise(camera) EXCEPT !.stopped = TRUE]
    /\ UNCHANGED <<cli, args, config_error, rt, soft, model, intrinsics,
                   started, labels_cache, np_outputs, snapshot, app, memo>>

NextFault ==
    \/ NextApp
    \/ \E stage \in CaptureStages : CaptureRaises(stage)

SpecFault == InitApp /\ [][NextFault]_vars

InitCfg ==
    /\ cli \in CfgCliSet
    /\ model \in CfgModelSet
    /\ Fresh
    /\ rt = NoRoundTrip
    /\ soft = {}

\* a normalized box in yx order: (y0, x0, y1, x1) in units of 1/Q
NormBoxes ==
    {<<y0, x0, y1, x1>> : y0 \in 0..Q, x0 \in 0..Q, y1 \in 0..Q, x1 \in 0..Q}

InputSizes == {<<320, 240>>, <<240, 240>>, <<4, 3>>}

\* the same box in pixels and xy order
DenormalizedXy(box, input_w, input_h) ==
    <<box[2] * input_w, box[1] * input_h, box[4] * input_w, box[3] * input_h>>

NormalizedYx ==
    [bbox_normalization |-> Some(TRUE), bbox_order |-> "yx"]

DenormalizedXyOrder ==
    [bbox_normalization |-> Some(FALSE), bbox_order |-> "xy"]

InitBox ==
    /\ cli \in {c \in CliSet : c.threshold = Some(50)
                                /\ c.max_detections = Some(1)
                                /\ c.postprocess = None}
    /\ model \in {m \in ModelSet : ~m.ignore_dash_labels
                                   /\ m.bbox_normalization = Some(TRUE)}
    /\ Fresh
    /\ soft = {}
    /\ rt \in [done : {FALSE}, box : NormBoxes, input_size : InputSizes,
               from_norm : {<<>>}, from_denorm : {<<>>}]

\* _apply_bbox_normalization_and_order on the normalized yx box and on
\* its pixel xy form, each under its own configuration
ApplyBoth ==
    /\ ~rt.done
    /\ LET input_w == rt.input_size[1]
           input_h == rt.input_size[2]
       IN  rt' = [rt EXCEPT
                    !.done = TRUE,
                    !.from_norm = ApplyBboxNormalizationAndOrder(
                        NormalizedYx, rt.box, input_w, input_h),
                    !.from_denorm = ApplyBboxNormalizationAndOrder(
                        DenormalizedXyOrder,
                        DenormalizedXy(rt.box, input_w, input_h),
                        input_w, input_h)]
    /\ UNCHANGED <<cli, args, config_error, soft, model, intrinsics,
                   started, labels_cache, np_outputs, snapshot, raised, memo>>
    /\ UNCHANGED kioskVars

NextBox == ApplyBoth

SpecBox == InitBox /\ [][NextBox]_vars

NextCfg ==
    \/ DetectorInit
    \/ \E metadata \in CfgMetadataSet : CaptureSnapshot(metadata)

SpecCfg == InitCfg /\ [][NextCfg]_vars

----------------------------------------------------------------------------
(* Properties *)

\* the last capture_snapshot returned a snapshot decoded from np_outputs
Decoded == snapshot.frame_rgb.present /\ ~raised

NonIncreasing(s) == \A i \in 1..(Len(s) - 1) : s[i].conf >= s[i + 1].conf

\* the candidates of the cycle, in candidate order, as detections
CycleDets ==
    IF np_outputs.present
    THEN RawDets(np_outputs.value, ComputeLabels(intrinsics),
                 model.input_size[1], model.input_size[2])
    ELSE <<>>

Passing(s) == SelectSeq(s, LAMBDA d : d.conf >= args.threshold)

\* C1: in every snapshot the filtered detections are in non-increasing order
\* of confidence and each has a confidence of at least the threshold
C1_SortedAboveThreshold ==
    Decoded =>
        /\ NonIncreasing(snapshot.dets)
        /\ \A i \in 1..Len(snapshot.dets) :
               snapshot.dets[i].conf >= args.threshold

\* a cycle whose candidates arrive out of order, some below the threshold
C1_Witness ==
    /\ Decoded
    /\ Len(snapshot.dets) >= 2
    /\ Len(Passing(CycleDets)) < Len(CycleDets)
    /\ ~NonIncreasing(Passing(CycleDets))

\* C2: the filtered detections of a snapshot number at most max_detections
C2_AtMostMaxDetections ==
    Decoded => Len(snapshot.dets) <= args.max_detections

\* the order-preserving descending arrangement of s, stated by position:
\* element i stands behind the elements of higher confidence and the
\* earlier elements of its own confidence
RankOf(s, i) ==
    Cardinality({j \in 1..Len(s) :
        \/ s[j].conf > s[i].conf
        \/ s[j].conf = s[i].conf /\ j <= i})

StableDesc(s) ==
    [k \in 1..Len(s) |-> s[CHOOSE i \in 1..Len(s) : RankOf(s, i) = k]]

\* C3: the filtered detections are the candidates in stable descending
\* order, restricted to those at or above the threshold, then cut to the
\* first max_detections
C3_FilterThenCap ==
    Decoded =>
        snapshot.dets = Take(Passing(StableDesc(CycleDets)),
                             args.max_detections)

\* C4: the raw detections of a snapshot are in non-increasing order of
\* confidence and number at most RAW_TOPK, whatever max_detections is
C4_RawSortedAtMostTopk ==
    Decoded =>
        /\ NonIncreasing(snapshot.raw_dets)
        /\ Len(snapshot.raw_dets) <= RAW_TOPK

\* a cycle with more than RAW_TOPK unordered candidates, max_detections
\* above RAW_TOPK
C4_Witness ==
    /\ Decoded
    /\ Len(CycleDets) > RAW_TOPK
    /\ args.max_detections > RAW_TOPK
    /\ ~NonIncreasing(CycleDets)
    /\ Len(snapshot.raw_dets) = RAW_TOPK

\* the confidences of a list of detections
Confs(s) == [k \in 1..Len(s) |-> s[k].conf]

\* C5: the raw detections are the first RAW_TOPK candidates of the stable
\* descending order whatever the threshold; a candidate below the threshold
\* that ranks within RAW_TOPK is among them and never among the filtered
\* detections; threshold 0.5 on confidences 0.9, 0.7, 0.4, 0.2 gives the
\* detections 0.9, 0.7 and the raw detections 0.9, 0.7, 0.4, 0.2
C5_RawRegardlessOfThreshold ==
    (Decoded /\ np_outputs.present) =>
        LET all == CycleDets
            raw == snapshot.raw_dets
        IN  /\ raw = Take(StableDesc(all), RAW_TOPK)
            /\ \A i \in 1..Len(all) :
                   (all[i].conf < args.threshold) =>
                       /\ (RankOf(all, i) <= RAW_TOPK =>
                               \E k \in 1..Len(raw) : raw[k] = all[i])
                       /\ \A k \in 1..Len(snapshot.dets) :
                               snapshot.dets[k] # all[i]
            /\ (np_outputs.value = ScenarioA /\ args.threshold = 50) =>
                   /\ Confs(snapshot.dets) = <<90, 70>>
                   /\ Confs(raw) = <<90, 70, 40, 20>>

\* the scenario of the claim has been decoded
C5_Witness ==
    /\ Decoded
    /\ np_outputs = Some(ScenarioA)
    /\ args.threshold = 50
    /\ Len(snapshot.raw_dets) = 4

\* C6: each of the first min(RAW_TOPK, max_detections) filtered detections
\* of a snapshot is among its raw detections
C6_RawCoversDetections ==
    Decoded =>
        \A i \in 1..Min(Len(snapshot.dets),
                        Min(RAW_TOPK, args.max_detections)) :
            \E k \in 1..Len(snapshot.raw_dets) :
                snapshot.raw_dets[k] = snapshot.dets[i]

\* more candidates than RAW_TOPK, some below the threshold, and a passing
\* candidate that arrives behind the first RAW_TOPK
C6_Witness ==
    /\ Decoded
    /\ args.max_detections > RAW_TOPK
    /\ Len(CycleDets) > RAW_TOPK
    /\ Len(snapshot.dets) < Len(CycleDets)
    /\ \E i \in (RAW_TOPK + 1)..Len(CycleDets) :
           /\ CycleDets[i].conf >= args.threshold
           /\ \A j \in 1..RAW_TOPK : CycleDets[j] # CycleDets[i]

\* C7: top3 is the first min(3, len(dets)) filtered detections, in order,
\* each as (label, confidence)
C7_Top3IsPrefix ==
    Decoded =>
        /\ Len(snapshot.top3) = Min(TOP_N, Len(snapshot.dets))
        /\ \A i \in 1..Len(snapshot.top3) :
               snapshot.top3[i] =
                   <<snapshot.dets[i].label, snapshot.dets[i].conf>>

\* a snapshot with more than three filtered detections
C7_Witness ==
    /\ Decoded
    /\ Len(snapshot.dets) > TOP_N
    /\ Len(snapshot.top3) = TOP_N
    /\ snapshot.dets[1].conf > snapshot.dets[Len(snapshot.dets)].conf

\* C8: a cycle whose raw outputs are absent raises nothing and yields a
\* snapshot with no detections, no raw detections, no top3 and the debug
\* counts raw_candidates = 0 and kept = 0
C8_AbsentOutputs ==
    [][(started /\ ~np_outputs'.present) =>
           /\ ~raised'
           /\ snapshot'.frame_rgb.present
           /\ snapshot'.dets = <<>>
           /\ snapshot'.raw_dets = <<>>
           /\ snapshot'.top3 = <<>>
           /\ snapshot'.debug.raw_candidates = 0
           /\ snapshot'.debug.kept = 0]_vars

\* a cycle without raw outputs has run after the labels were cached
C8_Witness ==
    /\ Decoded
    /\ ~np_outputs.present
    /\ labels_cache.present
    /\ snapshot.dets = <<>>

\* the label the claim gives to class index cat
ExpectedLabel(cat) ==
    LET labels == ComputeLabels(intrinsics)
    IN  IF cat \in 0..(Len(labels) - 1) THEN labels[cat + 1]
        ELSE <<"Class", cat>>

\* the candidates handed to the labelling loop of the configured variant
CycleCands ==
    IF ~np_outputs.present THEN <<>>
    ELSE IF intrinsics.postprocess = "nanodet"
         THEN Take(np_outputs.value, Max(args.max_detections, RAW_TOPK))
         ELSE np_outputs.value

\* how many detections of s carry the confidence and label p
DetCount(s, p) ==
    Cardinality({k \in 1..Len(s) : <<s[k].conf, s[k].label>> = p})

\* how many candidates of c have the score of p and are due the label of p
CandCount(c, p) ==
    Cardinality({i \in 1..Len(c) :
        <<c[i].score, ExpectedLabel(c[i].category)>> = p})

\* C9: every detection carries the label of its candidate's class index:
\* labels[index] for an index inside the label list and "Class {index}"
\* for any other index, in both variants
C9_LabelResolution ==
    Decoded =>
        /\ Len(snapshot.raw_dets) = Min(Len(CycleCands), RAW_TOPK)
        /\ \A k \in 1..Len(snapshot.raw_dets) :
               LET p == <<snapshot.raw_dets[k].conf,
                          snapshot.raw_dets[k].label>>
               IN  DetCount(snapshot.raw_dets, p) <= CandCount(CycleCands, p)
        /\ \A k \in 1..Len(snapshot.dets) :
               LET p == <<snapshot.dets[k].conf, snapshot.dets[k].label>>
               IN  DetCount(snapshot.dets, p) <= CandCount(CycleCands, p)

\* indices inside the list, above it and below zero, with three labels
C9_Witness ==
    /\ Decoded
    /\ Len(ComputeLabels(intrinsics)) = 3
    /\ \E k \in 1..Len(snapshot.raw_dets) :
           snapshot.raw_dets[k].label = <<"Class", 999>>
    /\ \E k \in 1..Len(snapshot.raw_dets) :
           snapshot.raw_dets[k].label = <<"Class", -1>>
    /\ \E k \in 1..Len(snapshot.raw_dets) :
           snapshot.raw_dets[k].label = <<"name", "person">>

\* C10: a cycle on the raw outputs of an earlier cycle yields the filtered
\* and raw detections of that cycle, whatever was decoded in between
C10_Deterministic ==
    (Decoded /\ memo.present /\ memo.outputs = np_outputs) =>
        /\ snapshot.dets = memo.dets
        /\ snapshot.raw_dets = memo.raw_dets

\* the outputs of an earlier cycle decoded again
C10_Witness ==
    /\ Decoded
    /\ memo.old
    /\ memo.outputs = np_outputs
    /\ Len(snapshot.dets) > 0
    /\ Len(snapshot.raw_dets) > Len(snapshot.dets)

\* the detections of s that have confidence c, in the order of s
WithConf(s, c) == SelectSeq(s, LAMBDA d : d.conf = c)

IsPrefix(s, t) == Len(s) <= Len(t) /\ s = SubSeq(t, 1, Len(s))

\* C11: candidates of equal confidence keep their candidate order in the
\* filtered and in the raw detections
C11_StableTies ==
    Decoded =>
        \A c \in {CycleDets[i].conf : i \in 1..Len(CycleDets)} :
            /\ IsPrefix(WithConf(snapshot.raw_dets, c), WithConf(CycleDets, c))
            /\ IsPrefix(WithConf(snapshot.dets, c), WithConf(CycleDets, c))

\* two different candidates of one confidence, both in both lists, behind
\* a candidate of lower confidence
C11_Witness ==
    /\ Decoded
    /\ Len(CycleDets) >= 3
    /\ CycleDets[1].conf < CycleDets[2].conf
    /\ \E i, j \in 1..Len(snapshot.dets) :
           /\ i < j
           /\ snapshot.dets[i].conf = snapshot.dets[j].conf
           /\ snapshot.dets[i] # snapshot.dets[j]
           /\ snapshot.raw_dets[i] = snapshot.dets[i]
           /\ snapshot.raw_dets[j] = snapshot.dets[j]

\* the value a setting is to resolve to: the override when one was given,
\* the declaration of the model when none was
Resolved(override, declared) ==
    IF override.present THEN override ELSE declared

\* C13: each overridable setting resolves to the override the user gave
\* and, without one, to what the model declares
C13_OverrideOrModelDefault ==
    started =>
        /\ intrinsics.bbox_normalization =
               Resolved(cli.bbox_normalization, model.bbox_normalization)
        /\ intrinsics.preserve_aspect_ratio =
               Resolved(cli.preserve_aspect_ratio,
                        model.preserve_aspect_ratio)
        /\ Resolved(cli.labels, model.labels).present =>
               intrinsics.labels = Resolved(cli.labels, model.labels).value
        /\ Resolved(cli.postprocess, model.postprocess).present =>
               intrinsics.postprocess =
                   Resolved(cli.postprocess, model.postprocess).value
        /\ Resolved(cli.bbox_order, model.bbox_order).present =>
               intrinsics.bbox_order =
                   Resolved(cli.bbox_order, model.bbox_order).value

\* the decode variant declared by the override or else by the model
DeclaredVariant ==
    LET d == Resolved(cli.postprocess, model.postprocess)
    IN  IF d.present THEN d.value ELSE ""

\* C14: with a declared decode variant that is neither generic nor nanodet
\* configuration fails: no detector is constructed and no cycle is decoded
C14_UnknownVariantFailsFast ==
    (DeclaredVariant \notin {"", "nanodet"}) =>
        /\ ~started
        /\ ~snapshot.frame_rgb.present

\* C12: a normalized yx box scaled under normalization comes out as the
\* same pixel box as its pixel xy form under no normalization and xy order
C12_RoundTrip ==
    rt.done => rt.from_norm = rt.from_denorm

C16_NoOverlap ==
    camera.requests = (IF loop.pc = "capture" THEN 1 ELSE 0)

\* a capture is in progress after an earlier one has completed
C16_Witness ==
    /\ loop.pc = "capture"
    /\ camera.requests = 1
    /\ snapshot.frame_rgb.present
    /\ app.state = "RUNNING"

\* the kiosk is in a state in which App.update captures
Live == app.state = "LIVEINTRO" \/ (app.state = "RUNNING" /\ app.mode = "LIVE")

\* C17 as stated: in every kiosk state a rendered frame is preceded in its
\* iteration by exactly one decode call
C17_OneDecodePerFrame ==
    loop.pc = "draw" => loop.calls = 1

\* C17: a rendered frame is preceded in its iteration by exactly one
\* decode call in LIVEINTRO and in the LIVE mode of RUNNING, and by none in
\* LANDING, GATE and the ANALYSE mode of RUNNING
C17_OneDecodePerLiveFrame ==
    loop.pc = "draw" => loop.calls = (IF Live THEN 1 ELSE 0)

\* a LIVE frame of a STUDENT session is about to be rendered
C17_Witness ==
    /\ loop.pc = "draw"
    /\ app.state = "RUNNING"
    /\ app.mode = "LIVE"
    /\ app.level = "STUDENT"
    /\ loop.calls = 1

\* C18: in ANALYSE mode and on a GATE screen no step captures: no request
\* is issued and the snapshot stays the one of the last LIVE frame
C18_FrozenFrame ==
    [][(app.state = "GATE" \/ (app.state = "RUNNING" /\ app.mode = "ANALYSE"))
          => /\ snapshot' = snapshot
             /\ camera'.requests = camera.requests
             /\ loop'.pc # "capture"]_vars

\* a frame of analysis step 2 is about to be rendered from the frozen
\* snapshot
C18_Witness ==
    /\ loop.pc = "draw"
    /\ app.state = "RUNNING"
    /\ app.mode = "ANALYSE"
    /\ app.step = 2
    /\ loop.calls = 0
    /\ Len(snapshot.dets) > 0

\* this step takes event e off the events of the iteration
Delivered(e) ==
    /\ loop.pc = "events"
    /\ loop'.pc = "events"
    /\ loop'.batch_left < loop.batch_left
    /\ loop'.event = e

InAnalyse == app.state = "RUNNING" /\ app.mode = "ANALYSE"

\* the gate for step n is opened and the step is left as it is
GateOpened(n) ==
    /\ app'.state = "GATE"
    /\ app'.gate_next_step.present
    /\ app'.gate_next_step.value = n
    /\ app'.step = app.step
    /\ app'.mode = app.mode

\* the analysis goes on at step n
StepTaken(n) ==
    /\ app'.state = "RUNNING"
    /\ app'.mode = "ANALYSE"
    /\ app'.step = n

C20_QuitKeys ==
    [][/\ (\E k \in QuitKeys : Delivered(k)) => ~app'.running
       /\ ~app.running => ~app'.running
       /\ (loop.pc = "loop" /\ ~app.running) => loop'.pc \in {"loop", "exited"}
       /\ (loop.pc # "exited" /\ loop'.pc = "exited") =>
              camera'.stopped = started]_vars

\* a raw box with each coordinate multiplied by the inference-space
\* dimension of its place under the box order
ScaledBox(box, order, input_w, input_h) ==
    IF order = "yx"
    THEN <<box[1] * input_h, box[2] * input_w,
           box[3] * input_h, box[4] * input_w>>
    ELSE <<box[1] * input_w, box[2] * input_h,
           box[3] * input_w, box[4] * input_h>>

\* the box the claim hands to the coordinate mapper for candidate c: scaled
\* first, then brought to corner form in the nanodet variant
PixelBox(c) ==
    LET sb == ScaledBox(c.box, intrinsics.bbox_order,
                        model.input_size[1], model.input_size[2])
    IN  IF intrinsics.postprocess = "nanodet"
        THEN NanodetXywhCenterToXyxy(sb)
        ELSE [i \in 1..4 |-> ToFloat(sb[i])]

\* C21: with bbox_normalization true every raw detection, in both decode
\* variants, carries the box of one of its candidates scaled to pixels
C21_ScaledBeforeMapper ==
    (Decoded /\ intrinsics.bbox_normalization.present
             /\ intrinsics.bbox_normalization.value) =>
        \A i \in 1..Len(snapshot.raw_dets) :
            \E j \in 1..Len(CycleCands) :
                /\ snapshot.raw_dets[i].conf = CycleCands[j].score
                /\ snapshot.raw_dets[i].box =
                       MapToIntXywh(ConvertInferenceCoords(
                           PixelBox(CycleCands[j])))

\* the cap of the nanodet variant on its raw candidates
NanodetCap == Max(args.max_detections, RAW_TOPK)

\* C22: in the nanodet variant the raw candidates handed on are at most
\* max(max_detections, RAW_TOPK), and none is dropped for its confidence:
\* below the cap every candidate of the outputs is handed on
C22_NanodetCandidateCap ==
    (Decoded /\ np_outputs.present /\ intrinsics.postprocess = "nanodet") =>
        /\ snapshot.debug.raw_candidates <= NanodetCap
        /\ Len(np_outputs.value) <= NanodetCap =>
               snapshot.debug.raw_candidates = Len(np_outputs.value)
        /\ Len(np_outputs.value) >= NanodetCap =>
               snapshot.debug.raw_candidates = NanodetCap

\* a nanodet cycle on more candidates than the cap, some under the threshold
C22_Witness ==
    /\ Decoded
    /\ np_outputs.present
    /\ intrinsics.postprocess = "nanodet"
    /\ Len(np_outputs.value) > NanodetCap
    /\ snapshot.debug.raw_candidates = NanodetCap
    /\ Len(snapshot.dets) < Len(snapshot.raw_dets)

\* this step handles an ENTER or a hit on the Continue button
GateAccepted ==
    /\ loop'.handled
    /\ \/ Delivered("K_RETURN")
       \/ Delivered("gate_next") /\ "gate_next" \in app.rects

\* this step handles a BACKSPACE or a hit on the Back button
GateLeftBack ==
    /\ loop'.handled
    /\ \/ Delivered("K_BACKSPACE")
       \/ Delivered("gate_prev") /\ "gate_prev" \in app.rects

\* the kiosk runs in the given mode and step with no gate pending
RunningAt(mode, step) ==
    /\ app'.state = "RUNNING"
    /\ ~app'.gate_next_step.present
    /\ app'.mode = mode
    /\ app'.step = step

\* C23: on a gate screen, accepting (ENTER or Continue, as handled by
\* handle_events) goes to ANALYSE at the target step; going back from the
\* gate of step 1 goes to LIVE and step 0, from the gate of step n > 1
\* straight to ANALYSE at step n - 1; each time the state is RUNNING and
\* the pending gate step is cleared
C23_GateTransitions ==
    [][(app.state = "GATE" /\ app.gate_next_step.present) =>
          LET n == app.gate_next_step.value
          IN  /\ GateAccepted => RunningAt("ANALYSE", n)
              /\ (GateLeftBack /\ n = 1) => RunningAt("LIVE", 0)
              /\ (GateLeftBack /\ n > 1) => RunningAt("ANALYSE", n - 1)]_vars

\* a STUDENT went back from the gate of a step above 2 with the Back button
C23_Witness ==
    /\ loop.pc = "events"
    /\ loop.event = "gate_prev"
    /\ loop.handled
    /\ loop.returned
    /\ app.level = "STUDENT"
    /\ app.state = "RUNNING"
    /\ app.mode = "ANALYSE"
    /\ app.step >= 2

\* C24: the playback is started or resumed only in a SCHUELER session
C24_AudioOnlySchueler ==
    [][(~app.music_busy /\ app'.music_busy) =>
          /\ app.level = "SCHUELER"
          /\ app'.level = "SCHUELER"]_vars

\* the audio of the English step 1 plays after a hit on the audio button
C24_Witness ==
    /\ app.music_busy
    /\ ~app.audio_is_paused
    /\ loop.event = "nav_audio"
    /\ loop.handled
    /\ app.level = "SCHUELER"
    /\ app.lang = "EN"
    /\ app.step = 1

\* C25: the mode is LIVE exactly when the step is 0, and in ANALYSE mode
\* the step lies between 1 and the total of the level, 4 for SCHUELER and
\* 7 for STUDENT
C25_ModeAndStep ==
    /\ app.mode = "LIVE" <=> app.step = 0
    /\ app.mode = "ANALYSE" =>
           /\ 1 <= app.step
           /\ app.level = "SCHUELER" => app.step <= 4
           /\ app.level = "STUDENT" => app.step <= 7
           /\ app.level \in {"SCHUELER", "STUDENT"}

\* ENTER was handled with a SCHUELER analysis at its last step
C25_Witness ==
    /\ loop.event = "K_RETURN"
    /\ loop.handled
    /\ app.level = "SCHUELER"
    /\ app.state = "RUNNING"
    /\ app.mode = "ANALYSE"
    /\ app.step = 4

\* C26: whenever draw runs in state RUNNING or GATE there is a snapshot
\* and a level, and no assertion has ended the program
C26_AssertionsHold ==
    /\ ~loop.failed
    /\ (loop.pc = "draw" /\ app.state \in {"RUNNING", "GATE"}) =>
           /\ app.has_snapshot
           /\ app.level # "NONE"

\* a gate screen is about to be drawn in English, on a decoded snapshot
C26_Witness ==
    /\ loop.pc = "draw"
    /\ app.state = "GATE"
    /\ app.lang = "EN"
    /\ app.level = "STUDENT"
    /\ app.has_snapshot
    /\ snapshot.frame_rgb.present

\* C27: the state is GATE exactly when a gate step is pending, the pending
\* step lies between 1 and 7, and a gate is shown only to a STUDENT
C27_GateOnlyForStudent ==
    /\ app.state = "GATE" <=> app.gate_next_step.present
    /\ app.gate_next_step.present =>
           /\ 1 <= app.gate_next_step.value
           /\ app.gate_next_step.value <= 7
    /\ app.state = "GATE" => app.level = "STUDENT"

\* the gate of the last STUDENT step is pending
C27_Witness ==
    /\ app.state = "GATE"
    /\ app.level = "STUDENT"
    /\ app.gate_next_step.present
    /\ app.gate_next_step.value = 7
    /\ app.step = 6

\* C28: whenever capture_snapshot is left, by its return or by an
\* exception, its one outstanding request has been released, and no
\* request is ever released twice
C28_ReleasedExactlyOnce ==
    [][/\ camera'.requests \in {0, 1}
       /\ (loop.pc = "capture" /\ loop'.pc # "capture") =>
              /\ camera.requests = 1
              /\ camera'.requests = 0]_vars

\* a capture raised after an earlier one had succeeded: the program has
\* ended with no request outstanding and the camera stopped
C28_Witness ==
    /\ loop.pc = "exited"
    /\ loop.failed
    /\ raised
    /\ camera.requests = 0
    /\ camera.stopped
    /\ snapshot.frame_rgb.present
    /\ app.state = "RUNNING"

====
